---- MODULE Spec2Model ----
(***************************************************************************)
(* Block cluster tree of repulsive-curves (src/product/block_cluster_tree. *)
(* cpp): classification of cluster pairs into admissible / inadmissible    *)
(* collections and the three multiply realizations built on them.          *)
(*                                                                         *)
(* Numbers.  The code computes in double; the model computes in integers.  *)
(* A kernel value is held in fixed point with unit 1/Q (a quotient is the  *)
(* truncated integer quotient), sums and products are exact.  The curve is *)
(* a closed polygon whose vertices lie on one axis at even integer         *)
(* coordinates, so that norms, lengths and midpoints are integers.         *)
(***************************************************************************)
EXTENDS Integers, Sequences, FiniteSets, TLC

\* ------------------------------------------------------------------ bounds
MaxN == 6          \* elements of the curve
MaxCalls == 2      \* multiply calls on one tree
MaxPasses == 6     \* the history counter passes stops counting here
Q == 1024          \* fixed-point unit of a kernel value

\* ------------------------------------------------------- program constants
NCols == 3
SmallSum == 8

Kinds == {"median", "first", "leaves", "hollow", "empty"}
Exponents == {<<2, 3>>, <<2, 4>>}
\* separationCoeff as <<numerator, denominator>>: 0, 1, 3/2
Thetas == {<<0, 1>>, <<1, 1>>, <<3, 2>>}

VARIABLES
    N,                  \* curves->NumVertices(): number of elements
    kind,               \* shape of the hierarchy handed to the constructor
    bvh,                \* node |-> the fields the hierarchy stores in the node
    separationCoeff,    \* <<numerator, denominator>>
    alpha, beta,        \* kernel exponents
    v_hat,              \* the caller's input buffer  (N x 3)
    b_start,            \* history: the output buffer as the caller handed it in
    unresolvedPairs,    \* worklist
    admissiblePairs,
    inadmissiblePairs,
    mode,               \* "none" while constructing, then "MatrixOnly"
    passes,             \* history: passes of the constructor's loop so far
    fields,             \* node |-> [V_I, B_I, aIJ_VJ]: scratch fields
    b_hat,              \* the caller's output buffer (N x 3)
    ops,                \* history: the operations applied, in order
    prev_b,             \* history: b_hat before the last operation
    prev_fields,        \* history: scratch fields before the last operation
    afArg,              \* history: argument of the last direct MultiplyAf call
    afResult,           \* vector returned by the last direct MultiplyAf call
    tpc, tv, tb, tres,  \* two concurrent MultiplyAf calls: position, input,
                        \* local result vector, returned vector
    overlap             \* history: the steps of the two calls have interleaved

vars == <<N, kind, bvh, separationCoeff, alpha, beta, v_hat, b_start,
          unresolvedPairs, admissiblePairs,
          inadmissiblePairs, mode, passes, fields, b_hat, ops, prev_b,
          prev_fields, afArg, afResult, tpc, tv, tb, tres, overlap>>

params == <<N, kind, bvh, separationCoeff, alpha, beta, v_hat, b_start>>
lists  == <<unresolvedPairs, admissiblePairs, inadmissiblePairs>>
calls  == <<b_hat, ops, prev_b, prev_fields, afArg, afResult>>
threads == <<tpc, tv, tb, tres, overlap>>

\* ------------------------------------------------------------- arithmetic
Abs(x) == IF x < 0 THEN -x ELSE x
Max2(x, y) == IF x > y THEN x ELSE y
Min2(x, y) == IF x < y THEN x ELSE y

RECURSIVE Pow(_, _)
Pow(x, s) == IF s = 0 THEN 1 ELSE x * Pow(x, s - 1)

RECURSIVE SumSeq(_)
SumSeq(s) == IF s = <<>> THEN 0 ELSE Head(s) + SumSeq(Tail(s))

\* ------------------------------------------------------------ the curve
Elems == 0 .. (N - 1)

\* Position of vertex k (on one axis, even coordinates, distinct midpoints).
Position(k) == k * (k + 1)

\* PointOnCurve::Next on a closed curve.
Next_(k) == (k + 1) % N

MidPoint(k) == (Position(k) + Position(Next_(k))) \div 2
Length(k) == Abs(Position(k) - Position(Next_(k)))

\* -------------------------------------------------------- the hierarchy
\* A node is the interval <<lo, hi>> of the element indices it holds (hi < lo:
\* no element).  Within one hierarchy distinct nodes hold distinct intervals,
\* so equality of intervals is equality of node references.
\* The constructor is handed the curve and the hierarchy separately: the
\* hierarchies "median", "first" and "leaves" are well formed, "hollow" has a
\* child of no element under every inner node, "empty" is a root of no element.
Root == IF kind = "empty" THEN <<0, -1>> ELSE <<0, N - 1>>

Split(r) ==
    LET lo == r[1]
        hi == r[2]
        n  == hi - lo + 1
        h  == n \div 2
    IN  IF n <= 1 THEN <<>>
        ELSE CASE kind = "median" -> << <<lo, lo + h - 1>>, <<lo + h, hi>> >>
               [] kind = "first"  -> << <<lo, lo>>, <<lo + 1, hi>> >>
               [] kind = "leaves" -> IF n = 2 THEN << <<lo, lo>>, <<hi, hi>> >>
                                     ELSE << <<lo, lo>>, <<lo + 1, lo + 1>>,
                                             <<lo + 2, hi>> >>
               [] kind = "hollow" -> << <<lo, lo + h - 1>>, <<lo + h, lo + h - 1>>,
                                        <<lo + h, hi>> >>

NumElements(node) == node[2] - node[1] + 1

clusterIndices(node) == [k \in 1 .. NumElements(node) |-> node[1] + k - 1]

children(node) == Split(node)

IsLeaf(node) == NumElements(node) = 1

VertexIndex(node) == node[1]

RECURSIVE Subtree(_)
Subtree(node) ==
    {node} \cup UNION {Subtree(children(node)[i]) : i \in 1 .. Len(children(node))}

Nodes == Subtree(Root)

\* Leaf masses and the aggregates the hierarchy derives from them.
Mass(k) == Length(k)

fullMasses == [k \in Elems |-> Mass(k)]

fillClusterMassVector(node) ==
    [k \in 1 .. NumElements(node) |-> Mass(clusterIndices(node)[k])]

\* What the construction of the hierarchy stores in a node: the total mass,
\* the centre of mass (0 for a node of no mass) and the bounds of its elements.
NodeFields(node) ==
    LET idx == clusterIndices(node)
        m   == SumSeq(fillClusterMassVector(node))
        wm  == SumSeq([k \in DOMAIN idx |-> Mass(idx[k]) * MidPoint(idx[k])])
        los == {Min2(Position(idx[k]), Position(Next_(idx[k]))) : k \in DOMAIN idx}
        his == {Max2(Position(idx[k]), Position(Next_(idx[k]))) : k \in DOMAIN idx}
    IN  [totalMass    |-> m,
         centerOfMass |-> IF m = 0 THEN 0 ELSE wm \div m,
         minBound     |-> IF los = {} THEN 0 ELSE CHOOSE x \in los : \A y \in los : x <= y,
         maxBound     |-> IF his = {} THEN 0 ELSE CHOOSE x \in his : \A y \in his : x >= y]

totalMass(node) == bvh[node].totalMass

centerOfMass(node) == bvh[node].centerOfMass

\* Extent of the cluster seen from a point: <<radial, linear>>.  On one axis
\* nothing lies off the viewing direction; the linear extent is the larger
\* offset of the cluster's bounds from its centre.
viewspaceBounds(node, point) ==
    IF NumElements(node) = 0 THEN <<0, 0>>
    ELSE <<0, Max2(Abs(bvh[node].centerOfMass - bvh[node].minBound),
                   Abs(bvh[node].maxBound - bvh[node].centerOfMass))>>

\* ------------------------------------------------------- classification
isPairSmallEnough(pair) ==
    LET s1 == NumElements(pair[1])
        s2 == NumElements(pair[2])
    IN  (s1 <= 1) \/ (s2 <= 1) \/ (s1 + s2 <= SmallSum)

\* isPairAdmissible looking at the extent of cluster1 only.
isPairAdmissible_OneSided(pair) ==
    IF pair[1] = pair[2] THEN FALSE
    ELSE LET c1spread == viewspaceBounds(pair[1], centerOfMass(pair[2]))
             distance == Abs(centerOfMass(pair[1]) - centerOfMass(pair[2]))
         IN  Max2(c1spread[1], c1spread[2]) * separationCoeff[2]
                 < separationCoeff[1] * distance

isPairAdmissible(pair) ==
    IF pair[1] = pair[2] THEN FALSE
    ELSE LET c1spread == viewspaceBounds(pair[1], centerOfMass(pair[2]))
             c2spread == viewspaceBounds(pair[2], centerOfMass(pair[1]))
             maxRadial == Max2(c1spread[1], c2spread[1])
             maxLinear == Max2(c1spread[2], c2spread[2])
             distance == Abs(centerOfMass(pair[1]) - centerOfMass(pair[2]))
         IN  Max2(maxRadial, maxLinear) * separationCoeff[2]
                 < separationCoeff[1] * distance

\* ChildPairs leaving the outer loop after the first child of cluster1.
ChildPairs_FirstChildOnly(pair) ==
    LET c1 == children(pair[1])
        c2 == children(pair[2])
    IN  IF c1 = <<>> THEN <<>> ELSE [k \in 1 .. Len(c2) |-> <<c1[1], c2[k]>>]

\* ChildPairs handing the pair itself back to the worklist.
ChildPairs_SamePair(pair) == <<pair>>

\* The child pairs of a subdivided pair, in the order of the two loops.
ChildPairs(pair) ==
    LET c1 == children(pair[1])
        c2 == children(pair[2])
    IN  [k \in 1 .. Len(c1) * Len(c2) |->
            <<c1[((k - 1) \div Len(c2)) + 1], c2[((k - 1) % Len(c2)) + 1]>>]

\* ClassifyPair without the rule that drops a pair with an empty side.
ClassifyPair_KeepEmpty(pair, st) ==
    IF NumElements(pair[1]) = 1 /\ NumElements(pair[2]) = 1
        THEN [st EXCEPT !.inadm = Append(@, pair)]
    ELSE IF isPairAdmissible(pair)
        THEN [st EXCEPT !.adm = Append(@, pair)]
    ELSE IF isPairSmallEnough(pair)
        THEN [st EXCEPT !.inadm = Append(@, pair)]
    ELSE [st EXCEPT !.nextPairs = @ \o ChildPairs(pair)]

\* ClassifyPair testing admissibility before the two-singletons rule.
ClassifyPair_AdmissibleFirst(pair, st) ==
    IF NumElements(pair[1]) = 0 \/ NumElements(pair[2]) = 0
        THEN st
    ELSE IF isPairAdmissible(pair)
        THEN [st EXCEPT !.adm = Append(@, pair)]
    ELSE IF NumElements(pair[1]) = 1 /\ NumElements(pair[2]) = 1
        THEN [st EXCEPT !.inadm = Append(@, pair)]
    ELSE IF isPairSmallEnough(pair)
        THEN [st EXCEPT !.inadm = Append(@, pair)]
    ELSE [st EXCEPT !.nextPairs = @ \o ChildPairs(pair)]

\* The body of the loop of splitInadmissibleNodes for one pair;
\* st = [adm, inadm, nextPairs].
ClassifyPair(pair, st) ==
    IF NumElements(pair[1]) = 0 \/ NumElements(pair[2]) = 0
        THEN st
    ELSE IF NumElements(pair[1]) = 1 /\ NumElements(pair[2]) = 1
        THEN [st EXCEPT !.inadm = Append(@, pair)]
    ELSE IF isPairAdmissible(pair)
        THEN [st EXCEPT !.adm = Append(@, pair)]
    ELSE IF isPairSmallEnough(pair)
        THEN [st EXCEPT !.inadm = Append(@, pair)]
    ELSE [st EXCEPT !.nextPairs = @ \o ChildPairs(pair)]

\* The loop of splitInadmissibleNodes over the worklist, from its i-th pair on.
RECURSIVE SplitLoop(_, _, _)
SplitLoop(work, i, st) ==
    IF i > Len(work) THEN st
    ELSE SplitLoop(work, i + 1, ClassifyPair(work[i], st))

ZeroFields == [V_I |-> 0, B_I |-> 0, aIJ_VJ |-> 0]

ZeroMatrix == [i \in Elems |-> <<0, 0, 0>>]
ZeroVector == [i \in Elems |-> 0]

\* ------------------------------------------------------------- multiply
\* A Vector3 is the triple of its components.
V3Add(a, b) == <<a[1] + b[1], a[2] + b[2], a[3] + b[3]>>
V3Sub(a, b) == <<a[1] - b[1], a[2] - b[2], a[3] - b[3]>>
V3Scale(k, a) == <<k * a[1], k * a[2], k * a[3]>>

RECURSIVE V3Sum(_)
V3Sum(s) == IF s = <<>> THEN <<0, 0, 0>> ELSE V3Add(Head(s), V3Sum(Tail(s)))

SelectRow(m, i) == m[i]
AddToRow(m, i, toAdd) == [m EXCEPT ![i] = V3Add(m[i], toAdd)]

pow_s == beta - alpha

isNeighbors(p1, p2) ==
    p1 = p2 \/ Next_(p1) = p2 \/ p1 = Next_(p2) \/ Next_(p1) = Next_(p2)

\* Exact kernel entry of elements e1, e2, in units of 1/Q.
af_ij(e1, e2) ==
    LET l1 == Length(e1)
        l2 == Length(e2)
    IN  IF isNeighbors(e1, e2) THEN 0
        ELSE (Q * l1 * l2) \div Pow(Abs(MidPoint(e1) - MidPoint(e2)), pow_s)

\* AfFullRow reading row e1index of v where it should read row e2index.
AfFullRow_WrongRow(pair, v, result, i) ==
    LET idx2 == clusterIndices(pair[2])
        e1index == clusterIndices(pair[1])[i]
        a_times_one == SumSeq([j \in DOMAIN idx2 |-> af_ij(e1index, idx2[j])])
        a_times_v == V3Sum([j \in DOMAIN idx2 |->
            V3Scale(af_ij(e1index, idx2[j]), SelectRow(v, e1index))])
        toAdd == V3Scale(2, V3Sub(V3Scale(a_times_one, SelectRow(v, e1index)),
                                  a_times_v))
    IN  AddToRow(result, e1index, toAdd)

\* Row i of cluster1: the body of the outer loop of AfFullProduct.
AfFullRow(pair, v, result, i) ==
    LET idx2 == clusterIndices(pair[2])
        e1index == clusterIndices(pair[1])[i]
        a_times_one == SumSeq([j \in DOMAIN idx2 |-> af_ij(e1index, idx2[j])])
        a_times_v == V3Sum([j \in DOMAIN idx2 |->
            V3Scale(af_ij(e1index, idx2[j]), SelectRow(v, idx2[j]))])
        toAdd == V3Scale(2, V3Sub(V3Scale(a_times_one, SelectRow(v, e1index)),
                                  a_times_v))
    IN  AddToRow(result, e1index, toAdd)

RECURSIVE AfFullRows(_, _, _, _)
AfFullRows(pair, v, result, i) ==
    IF i > Len(clusterIndices(pair[1])) THEN result
    ELSE AfFullRows(pair, v, AfFullRow(pair, v, result, i), i + 1)

AfFullProduct(pair, v, result) == AfFullRows(pair, v, result, 1)

\* Far-field scalar of a pair, in units of 1/Q.
a_IJ(pair) ==
    Q \div Pow(Abs(centerOfMass(pair[1]) - centerOfMass(pair[2])), pow_s)

\* Row i of cluster1: the body of the last loop of AfApproxProduct.
AfApproxRow(pair, v, result, i) ==
    LET wf_i == fillClusterMassVector(pair[1])
        wf_j == fillClusterMassVector(pair[2])
        idx1 == clusterIndices(pair[1])
        idx2 == clusterIndices(pair[2])
        a_wf_1 == a_IJ(pair) * SumSeq(wf_j)
        a_wf_J == V3Scale(a_IJ(pair),
            V3Sum([j \in DOMAIN wf_j |-> V3Scale(wf_j[j], SelectRow(v, idx2[j]))]))
        toAdd == V3Scale(wf_i[i] * 2,
                         V3Sub(V3Scale(a_wf_1, SelectRow(v, idx1[i])), a_wf_J))
    IN  AddToRow(result, idx1[i], toAdd)

RECURSIVE AfApproxRows(_, _, _, _)
AfApproxRows(pair, v, result, i) ==
    IF i > Len(fillClusterMassVector(pair[1])) THEN result
    ELSE AfApproxRows(pair, v, AfApproxRow(pair, v, result, i), i + 1)

AfApproxProduct(pair, v, result) == AfApproxRows(pair, v, result, 1)

RECURSIVE MultiplyInadmissibleLoop(_, _, _)
MultiplyInadmissibleLoop(pairs, v, b) ==
    IF pairs = <<>> THEN b
    ELSE MultiplyInadmissibleLoop(Tail(pairs), v, AfFullProduct(Head(pairs), v, b))

RECURSIVE MultiplyAdmissibleLoop(_, _, _)
MultiplyAdmissibleLoop(pairs, v, b) ==
    IF pairs = <<>> THEN b
    ELSE MultiplyAdmissibleLoop(Tail(pairs), v, AfApproxProduct(Head(pairs), v, b))

\* ----------------------------------------------- upward / downward passes
\* Every node of the subtree gets its three scratch fields zeroed.
recursivelyZeroMVFields(node, f) ==
    [n \in DOMAIN f |-> IF n \in Subtree(node) THEN ZeroFields ELSE f[n]] @@ <<>>

\* The value SetVIs assigns to node->V_I: a leaf's is w_j * v_hat_j, an inner
\* node's starts at 0 and adds the V_I just assigned to each child.
RECURSIVE VI(_, _)
VI(node, v) ==
    IF IsLeaf(node) THEN totalMass(node) * v[VertexIndex(node)]
    ELSE 0 + SumSeq([i \in DOMAIN children(node) |-> VI(children(node)[i], v)])

\* SetVIs assigns V_I in every node of the subtree of node.
SetVIs(node, v, f) ==
    LET sub == Subtree(node)
    IN  [n \in DOMAIN f |->
                IF n \in sub THEN [f[n] EXCEPT !.V_I = VI(n, v)] ELSE f[n]] @@ <<>>

\* The body of the first loop of SetBIs.
AccumulatePair(pair, f) ==
    [f EXCEPT ![pair[1]].aIJ_VJ = f[pair[1]].aIJ_VJ + a_IJ(pair) * f[pair[2]].V_I]

RECURSIVE Accumulate(_, _)
Accumulate(pairs, f) ==
    IF pairs = <<>> THEN f
    ELSE Accumulate(Tail(pairs), AccumulatePair(Head(pairs), f))

\* PropagateBIs handing parent_BI, not node's B_I, down to the children.
RECURSIVE PropagateBIs_NoInherit(_, _, _)
PropagateBIs_NoInherit(node, parent_BI, f) ==
    {<<node, parent_BI + f[node].aIJ_VJ>>} \cup
    UNION {PropagateBIs_NoInherit(children(node)[i], parent_BI, f) :
               i \in DOMAIN children(node)}

\* The assignments of PropagateBIs(node, parent_BI, .): the set of
\* <<n, B_I>> over the subtree of node, each child receiving node's B_I.
RECURSIVE PropagateBIs(_, _, _)
PropagateBIs(node, parent_BI, f) ==
    {<<node, parent_BI + f[node].aIJ_VJ>>} \cup
    UNION {PropagateBIs(children(node)[i], parent_BI + f[node].aIJ_VJ, f) :
               i \in DOMAIN children(node)}

\* PropagateBIs(node, 0, b_tilde) seen as a step on st = [f, b]: B_I of every
\* node of the subtree and b_tilde at every leaf's vertex index are assigned.
Propagate(node, st) ==
    LET f == st.f
        b == st.b
        BI == PropagateBIs(node, 0, f)
        sub == {a[1] : a \in BI}
        leaves == {n \in sub : IsLeaf(n)}
        B(n) == (CHOOSE a \in BI : a[1] = n)[2]
    IN  [f |-> [n \in DOMAIN f |->
                   IF n \in sub THEN [f[n] EXCEPT !.B_I = B(n)] ELSE f[n]] @@ <<>>,
         b |-> [i \in DOMAIN b |->
                   IF \E n \in leaves : VertexIndex(n) = i
                   THEN B(CHOOSE n \in leaves : VertexIndex(n) = i)
                   ELSE b[i]] @@ <<>>]

SetBIs(node, st) ==
    Propagate(node, [f |-> Accumulate(admissiblePairs, st.f), b |-> st.b])

\* MultiplyAf after its call of recursivelyZeroMVFields: the two passes on the
\* scratch fields f and the scaling of the result by the masses.
\* [f |-> scratch fields after the call, result |-> returned vector]
AfPasses(f, v) ==
    LET f1 == SetVIs(Root, v, f)
        st == SetBIs(Root, [f |-> f1, b |-> [i \in DOMAIN v |-> 0]])
    IN  [f |-> st.f,
         result |-> [i \in DOMAIN st.b |-> fullMasses[i] * st.b[i]] @@ <<>>]

\* MultiplyAf without its call of recursivelyZeroMVFields.
MultiplyAf_NoZero(f, v) == AfPasses(f, v)

MultiplyAf(f, v) == AfPasses(recursivelyZeroMVFields(Root, f), v)

\* Column c (0, 1, 2) of a matrix, and its assignment.
Column(m, c) == [i \in DOMAIN m |-> m[i][c + 1]]
\* Column assignment written as +=.
SetColumn_Add(m, c, col) ==
    [i \in DOMAIN m \cap DOMAIN col |->
        [m[i] EXCEPT ![c + 1] = m[i][c + 1] + col[i]]] @@ <<>>

SetColumn(m, c, col) ==
    [i \in DOMAIN m \cap DOMAIN col |-> [m[i] EXCEPT ![c + 1] = col[i]]] @@ <<>>

\* The last statement of MultiplyAdmissibleFast:
\* b_hat = 2 * (H_f * v_hat - b_hat), H_f the diagonal matrix of h_f.
FastCombine(h_f, v, b) ==
    [i \in DOMAIN h_f \cap DOMAIN b |->
        V3Scale(2, V3Sub(V3Scale(h_f[i], v[i]), b[i]))] @@ <<>>

\* --------------------------------------------------------------- inputs
OneHot(i) == [k \in Elems |-> IF k = i THEN <<1, 0, 0>> ELSE <<0, 0, 0>>]
Ramp == [k \in Elems |-> <<k + 1, k + 3, 2 * k + 5>>]
VInputs == {OneHot(i) : i \in Elems} \cup {Ramp}

\* The output buffer the caller hands in: zeroed, or holding earlier results.
Buffers == {ZeroMatrix, [k \in Elems |-> <<7, 7, 7>>]}

Init ==
    /\ N \in 0 .. MaxN
    /\ kind \in Kinds
    /\ bvh = [n \in Nodes |-> NodeFields(n)]
    /\ separationCoeff \in Thetas
    /\ \E e \in Exponents : alpha = e[1] /\ beta = e[2]
    /\ v_hat \in VInputs
    /\ unresolvedPairs = << <<Root, Root>> >>
    /\ admissiblePairs = <<>>
    /\ inadmissiblePairs = <<>>
    /\ mode = "none"
    /\ passes = 0
    /\ fields = [n \in Nodes |-> ZeroFields]
    /\ b_hat \in Buffers
    /\ b_start = b_hat
    /\ ops = <<>>
    /\ prev_b = b_hat
    /\ prev_fields = [n \in Nodes |-> ZeroFields]
    /\ afArg = ZeroVector
    /\ afResult = ZeroVector
    /\ tpc = [t \in 1 .. 2 |-> "idle"]
    /\ tv = [t \in 1 .. 2 |-> ZeroVector]
    /\ tb = [t \in 1 .. 2 |-> ZeroVector]
    /\ tres = [t \in 1 .. 2 |-> ZeroVector]
    /\ overlap = FALSE

\* ------------------------------------------------------------ constructor
\* One pass of the constructor's while loop.
splitInadmissibleNodes ==
    /\ mode = "none"
    /\ Len(unresolvedPairs) > 0
    /\ \E r \in {SplitLoop(unresolvedPairs, 1, [adm |-> admissiblePairs,
                              inadm |-> inadmissiblePairs, nextPairs |-> <<>>])} :
           /\ admissiblePairs' = r.adm
           /\ inadmissiblePairs' = r.inadm
           /\ unresolvedPairs' = r.nextPairs
    /\ passes' = Min2(passes + 1, MaxPasses)
    /\ UNCHANGED <<params, mode, fields, calls, threads>>

\* The constructor leaves the loop and returns.
Constructed ==
    /\ mode = "none"
    /\ Len(unresolvedPairs) = 0
    /\ mode' = "MatrixOnly"
    /\ UNCHANGED <<params, lists, passes, fields, calls, threads>>

\* ------------------------------------------------------ multiply calls
MultiplyInadmissible ==
    /\ mode = "MatrixOnly"
    /\ Len(ops) < MaxCalls
    /\ b_hat' = MultiplyInadmissibleLoop(inadmissiblePairs, v_hat, b_hat)
    /\ prev_b' = b_hat
    /\ prev_fields' = fields
    /\ ops' = Append(ops, "MultiplyInadmissible")
    /\ UNCHANGED <<params, lists, mode, passes, fields, afArg, afResult, threads>>

MultiplyAdmissible ==
    /\ mode = "MatrixOnly"
    /\ Len(ops) < MaxCalls
    /\ b_hat' = MultiplyAdmissibleLoop(admissiblePairs, v_hat, b_hat)
    /\ prev_b' = b_hat
    /\ prev_fields' = fields
    /\ ops' = Append(ops, "MultiplyAdmissible")
    /\ UNCHANGED <<params, lists, mode, passes, fields, afArg, afResult, threads>>

\* h is the call on the all-ones vector, c0, c1, c2 are the three passes of
\* the loop over the columns, each on the scratch fields its predecessor left.
MultiplyAdmissibleFast ==
    /\ mode = "MatrixOnly"
    /\ Len(ops) < MaxCalls
    /\ \E h \in {MultiplyAf(fields, [i \in Elems |-> 1])} :
       \E c0 \in {MultiplyAf(h.f, Column(v_hat, 0))} :
       \E c1 \in {MultiplyAf(c0.f, Column(v_hat, 1))} :
       \E c2 \in {MultiplyAf(c1.f, Column(v_hat, NCols - 1))} :
       \E b0 \in {SetColumn(b_hat, 0, c0.result)} :
       \E b1 \in {SetColumn(b0, 1, c1.result)} :
       \E b2 \in {SetColumn(b1, NCols - 1, c2.result)} :
           /\ b_hat' = FastCombine(h.result, v_hat, b2)
           /\ fields' = c2.f
    /\ prev_b' = b_hat
    /\ prev_fields' = fields
    /\ ops' = Append(ops, "MultiplyAdmissibleFast")
    /\ UNCHANGED <<params, lists, mode, passes, afArg, afResult, threads>>

\* A direct call of MultiplyAf, on the all-ones vector (c = NCols) or on
\* column c of the input buffer.
AfInput(c) == IF c = NCols THEN [i \in Elems |-> 1] ELSE Column(v_hat, c)

MultiplyAfCall(c) ==
    /\ mode = "MatrixOnly"
    /\ Len(ops) < MaxCalls
    /\ \E r \in {MultiplyAf(fields, AfInput(c))} :
           /\ afArg' = AfInput(c)
           /\ afResult' = r.result
           /\ fields' = r.f
    /\ prev_b' = b_hat
    /\ prev_fields' = fields
    /\ ops' = Append(ops, "MultiplyAf")
    /\ UNCHANGED <<params, lists, mode, passes, b_hat, threads>>

\* ------------------------------- two MultiplyAf calls on the same tree
\* The scratch fields live in the nodes, the result vector is local to the
\* call.  Call 1 is given the all-ones vector, call 2 column 0 of v_hat.
Busy(t) == tpc[t] \notin {"idle", "done"}
Other(t) == 3 - t

\* The first step of a call, leaving the scratch fields as they are.
AfZero_Skip(t) ==
    /\ mode = "MatrixOnly"
    /\ tpc[t] = "idle"
    /\ tv' = [tv EXCEPT ![t] = IF t = 1 THEN [i \in Elems |-> 1] ELSE Column(v_hat, 0)]
    /\ tb' = [tb EXCEPT ![t] = ZeroVector]
    /\ tpc' = [tpc EXCEPT ![t] = "SetVIs"]
    /\ overlap' = (overlap \/ Busy(Other(t)))
    /\ UNCHANGED <<params, lists, mode, passes, fields, calls, tres>>

AfZero(t) ==
    /\ mode = "MatrixOnly"
    /\ tpc[t] = "idle"
    /\ fields' = recursivelyZeroMVFields(Root, fields)
    /\ tv' = [tv EXCEPT ![t] = IF t = 1 THEN [i \in Elems |-> 1] ELSE Column(v_hat, 0)]
    /\ tb' = [tb EXCEPT ![t] = ZeroVector]
    /\ tpc' = [tpc EXCEPT ![t] = "SetVIs"]
    /\ overlap' = (overlap \/ Busy(Other(t)))
    /\ UNCHANGED <<params, lists, mode, passes, calls, tres>>

AfSetVIs(t) ==
    /\ tpc[t] = "SetVIs"
    /\ fields' = SetVIs(Root, tv[t], fields)
    /\ tpc' = [tpc EXCEPT ![t] = "Accumulate"]
    /\ overlap' = (overlap \/ Busy(Other(t)))
    /\ UNCHANGED <<params, lists, mode, passes, calls, tv, tb, tres>>

AfAccumulate(t) ==
    /\ tpc[t] = "Accumulate"
    /\ fields' = Accumulate(admissiblePairs, fields)
    /\ tpc' = [tpc EXCEPT ![t] = "Propagate"]
    /\ overlap' = (overlap \/ Busy(Other(t)))
    /\ UNCHANGED <<params, lists, mode, passes, calls, tv, tb, tres>>

AfPropagate(t) ==
    /\ tpc[t] = "Propagate"
    /\ \E st \in {Propagate(Root, [f |-> fields, b |-> tb[t]])} :
           /\ fields' = st.f
           /\ tb' = [tb EXCEPT ![t] = st.b]
           /\ tres' = [tres EXCEPT ![t] = [i \in Elems |-> fullMasses[i] * st.b[i]]]
    /\ tpc' = [tpc EXCEPT ![t] = "done"]
    /\ overlap' = (overlap \/ Busy(Other(t)))
    /\ UNCHANGED <<params, lists, mode, passes, calls, tv>>

\* --------------------------------------------------------- specifications
Next ==
    \/ splitInadmissibleNodes
    \/ Constructed
    \/ MultiplyInadmissible
    \/ MultiplyAdmissible
    \/ MultiplyAdmissibleFast

Spec == Init /\ [][Next]_vars

\* The constructor alone; its loop keeps running while the worklist is
\* non-empty.
NextBuild == splitInadmissibleNodes \/ Constructed

BuildSpec == Init /\ [][NextBuild]_vars /\ WF_vars(splitInadmissibleNodes)

\* Sequences of direct MultiplyAf calls.
NextAf ==
    \/ splitInadmissibleNodes
    \/ Constructed
    \/ \E c \in 0 .. NCols : MultiplyAfCall(c)

AfSpec == Init /\ [][NextAf]_vars

\* Two MultiplyAf calls whose steps may interleave.
NextRace ==
    \/ splitInadmissibleNodes
    \/ Constructed
    \/ \E t \in 1 .. 2 : AfZero(t)
    \/ \E t \in 1 .. 2 : AfSetVIs(t)
    \/ \E t \in 1 .. 2 : AfAccumulate(t)
    \/ \E t \in 1 .. 2 : AfPropagate(t)

RaceSpec == Init /\ [][NextRace]_vars


\* ================================================================ claims
Ready == mode = "MatrixOnly"

LastOp == IF ops = <<>> THEN "none" ELSE ops[Len(ops)]

AllPairs == admissiblePairs \o inadmissiblePairs

\* The element indices a cluster holds, as a set.
IndexSet(node) == {clusterIndices(node)[k] : k \in 1 .. NumElements(node)}

\* (i, j) lies in the index cross-product cluster1 x cluster2 of the pair.
Covers(pair, i, j) == i \in IndexSet(pair[1]) /\ j \in IndexSet(pair[2])

\* Every node's index set is the disjoint union of its children's index sets,
\* a node is a leaf iff it holds exactly one element, no cluster is empty.
WellFormed ==
    \A n \in Nodes :
        LET c == children(n)
        IN  /\ NumElements(n) >= 1
            /\ (c = <<>>) <=> (NumElements(n) = 1)
            /\ c # <<>> =>
                  /\ IndexSet(n) = UNION {IndexSet(c[k]) : k \in DOMAIN c}
                  /\ \A k, m \in DOMAIN c :
                        k # m => IndexSet(c[k]) \cap IndexSet(c[m]) = {}

MatAdd(a, b) == [i \in DOMAIN a |-> V3Add(a[i], b[i])]

AllZero == [n \in Nodes |-> ZeroFields]

\* ---------------------------------------------------------------- C1
\* C1: after construction over a well-formed hierarchy, every ordered pair
\* (i, j) of element indices with i # j lies in the cross-product of exactly
\* one pair of the admissible and inadmissible collections taken together.
C1_ExactlyOnePair ==
    (Ready /\ WellFormed) =>
        LET cross == [k \in DOMAIN AllPairs |->
                         <<IndexSet(AllPairs[k][1]), IndexSet(AllPairs[k][2])>>] @@ <<>>
        IN  \A i, j \in Elems :
                i # j => Cardinality({k \in DOMAIN cross :
                                         i \in cross[k][1] /\ j \in cross[k][2]}) = 1

\* A well-formed hierarchy whose pair (root, root) was subdivided and which
\* ended with pairs in both collections.
C1_Witness ==
    /\ Ready /\ WellFormed
    /\ passes >= 2
    /\ admissiblePairs # <<>>
    /\ inadmissiblePairs # <<>>

\* ---------------------------------------------------------------- C2
\* C2: the constructor's loop terminates: the worklist of unresolved pairs
\* eventually is empty, and a pass that leaves pairs on the worklist leaves
\* only pairs of clusters with fewer elements than the largest it started with.
WorkSize(w) ==
    IF w = <<>> THEN 0
    ELSE CHOOSE m \in {NumElements(w[k][1]) + NumElements(w[k][2]) : k \in DOMAIN w} :
             \A k \in DOMAIN w : NumElements(w[k][1]) + NumElements(w[k][2]) <= m

C2_Terminates ==
    /\ <>(Len(unresolvedPairs) = 0)
    /\ [][unresolvedPairs' # <<>> => WorkSize(unresolvedPairs') < WorkSize(unresolvedPairs)]_vars

\* The loop ran three passes or more and left the worklist empty.
C2_Witness == passes >= 3 /\ Len(unresolvedPairs) = 0

\* ---------------------------------------------------------------- C3
Adjacent(i, j) == Next_(i) = j \/ Next_(j) = i

\* The exact kernel entry a(i, j) in units of 1/Q: zero for the same or
\* adjacent elements.
Kernel(i, j) ==
    IF i = j \/ Adjacent(i, j) THEN 0
    ELSE (Q * Length(i) * Length(j)) \div Pow(Abs(MidPoint(i) - MidPoint(j)), beta - alpha)

\* out(i) = 2 * ((sum_j a(i,j)) * v(i) - sum_j a(i,j) * v(j)), j over all the
\* elements the hierarchy holds.
BruteForce(v, i) ==
    LET held == clusterIndices(Root)
    IN  V3Scale(2, V3Sub(V3Scale(SumSeq([j \in DOMAIN held |-> Kernel(i, held[j])]), v[i]),
                         V3Sum([j \in DOMAIN held |-> V3Scale(Kernel(i, held[j]), v[held[j]])])))

\* C3: with zero admissible pairs, MultiplyInadmissible applied to a zeroed
\* buffer leaves the brute-force value in the row of every element.
C3_BruteForce ==
    (LastOp = "MultiplyInadmissible" /\ prev_b = ZeroMatrix /\ admissiblePairs = <<>>)
        => \A i \in IndexSet(Root) : b_hat[i] = BruteForce(v_hat, i)

\* Such a call on a subdivided tree, with a non-zero result on the ramp input.
C3_Witness ==
    /\ LastOp = "MultiplyInadmissible" /\ prev_b = ZeroMatrix /\ admissiblePairs = <<>>
    /\ Len(inadmissiblePairs) > 1
    /\ v_hat = Ramp
    /\ \E i \in IndexSet(Root) : b_hat[i] # <<0, 0, 0>>
    /\ \A i \in IndexSet(Root) : b_hat[i] = BruteForce(v_hat, i)

\* ---------------------------------------------------------------- C4
\* C4: MultiplyAdmissibleFast leaves in the buffer what MultiplyAdmissible
\* leaves in a zeroed buffer, for the same tree and the same input.
C4_FastEqualsDirect ==
    (LastOp = "MultiplyAdmissibleFast")
        => b_hat = MultiplyAdmissibleLoop(admissiblePairs, v_hat, ZeroMatrix)

\* MultiplyAdmissibleFast has run on a tree with an admissible pair whose
\* cluster1 is no leaf, and its result is not zero.
C4_Witness ==
    /\ LastOp = "MultiplyAdmissibleFast"
    /\ \E k \in DOMAIN admissiblePairs : NumElements(admissiblePairs[k][1]) > 1
    /\ b_hat # ZeroMatrix
    /\ b_hat = MultiplyAdmissibleLoop(admissiblePairs, v_hat, ZeroMatrix)

\* ---------------------------------------------------------------- C5
\* C5: whatever the scratch fields hold when a MultiplyAf call starts, the
\* vector it returns is the one the two passes yield for the same input on
\* scratch fields that are all zero.
C5_NoLeak ==
    (LastOp = "MultiplyAf") => afResult = AfPasses(AllZero, afArg).result

\* A second call that started on scratch fields the first one left non-zero.
C5_Witness ==
    /\ LastOp = "MultiplyAf" /\ Len(ops) >= 2
    /\ \E n \in Nodes : prev_fields[n].aIJ_VJ # 0 /\ prev_fields[n].B_I # 0
    /\ afResult # ZeroVector
    /\ afResult = AfPasses(AllZero, afArg).result

\* ---------------------------------------------------------------- C6
\* C6: a MultiplyAf call whose steps did not interleave with the other
\* call's steps returns the correct vector for its input.
C6_SerializedCorrect ==
    \A t \in 1 .. 2 :
        (tpc[t] = "done" /\ ~overlap) => tres[t] = AfPasses(AllZero, tv[t]).result

\* The steps of the two calls interleaved and a call returned a vector that
\* differs from the one it returns when the calls are serialized.
C6_Race ==
    /\ overlap
    /\ \A t \in 1 .. 2 : tpc[t] = "done"
    /\ \E t \in 1 .. 2 : tres[t] # AfPasses(AllZero, tv[t]).result

\* ---------------------------------------------------------------- C7
Mirrored(pairs) ==
    \A k \in DOMAIN pairs : \E m \in DOMAIN pairs : pairs[m] = <<pairs[k][2], pairs[k][1]>>

\* The full multiply into a zeroed buffer.
FullMultiply(v) ==
    MultiplyAdmissibleLoop(admissiblePairs, v,
        MultiplyInadmissibleLoop(inadmissiblePairs, v, ZeroMatrix))

FullOps == {<<"MultiplyInadmissible", "MultiplyAdmissible">>,
            <<"MultiplyAdmissible", "MultiplyInadmissible">>}

\* C7: (A, B) is in a collection exactly when (B, A) is, and the full multiply
\* of the one-hot field at i, read at a non-adjacent j # i, equals the full
\* multiply of the one-hot field at j read at i.
C7_Symmetric ==
    /\ Mirrored(admissiblePairs)
    /\ Mirrored(inadmissiblePairs)
    /\ (ops \in FullOps /\ b_start = ZeroMatrix) =>
           \A i \in Elems :
               v_hat = OneHot(i) =>
                   \A j \in Elems :
                       (j # i /\ ~Adjacent(i, j)) => b_hat[j] = FullMultiply(OneHot(j))[i]

\* The full multiply of a one-hot field has run and left non-zero entries at
\* elements reached through an admissible and through an inadmissible pair.
C7_Witness ==
    /\ ops \in FullOps /\ b_start = ZeroMatrix
    /\ \E i \in Elems :
          /\ v_hat = OneHot(i)
          /\ \E j \in Elems :
                /\ j # i /\ ~Adjacent(i, j) /\ b_hat[j] # <<0, 0, 0>>
                /\ \E k \in DOMAIN admissiblePairs : Covers(admissiblePairs[k], j, i)
          /\ \E j \in Elems :
                /\ j # i /\ ~Adjacent(i, j) /\ b_hat[j] # <<0, 0, 0>>
                /\ \E k \in DOMAIN inadmissiblePairs : Covers(inadmissiblePairs[k], j, i)

\* ---------------------------------------------------------------- C8
\* C8 as stated: when the root holds no element both collections stay empty
\* and every multiply call leaves the buffer as it was.
C8_EveryMultiplyNoOp ==
    (NumElements(Root) = 0) =>
        /\ admissiblePairs = <<>>
        /\ inadmissiblePairs = <<>>
        /\ ops # <<>> => b_hat = prev_b

\* C8: when the root holds no element both collections stay empty,
\* MultiplyInadmissible and MultiplyAdmissible leave the buffer as it was and
\* MultiplyAdmissibleFast leaves zero in every row of the buffer.
C8_EmptyCollections ==
    (NumElements(Root) = 0) =>
        /\ admissiblePairs = <<>>
        /\ inadmissiblePairs = <<>>
        /\ LastOp \in {"MultiplyInadmissible", "MultiplyAdmissible"} => b_hat = prev_b
        /\ LastOp = "MultiplyAdmissibleFast" => b_hat = ZeroMatrix

\* The constructor has returned on a root of no element; the additive calls
\* ran on a buffer with non-zero rows, then MultiplyAdmissibleFast.
C8_Witness ==
    /\ NumElements(Root) = 0 /\ Ready
    /\ admissiblePairs = <<>> /\ inadmissiblePairs = <<>>
    /\ Len(ops) >= 2
    /\ ops[Len(ops) - 1] \in {"MultiplyInadmissible", "MultiplyAdmissible"}
    /\ LastOp = "MultiplyAdmissibleFast"
    /\ prev_b # ZeroMatrix
    /\ b_hat = ZeroMatrix

\* ---------------------------------------------------------------- C9
\* The separation test: max extent < theta * centroid distance.
Separated(pair) ==
    LET e1 == viewspaceBounds(pair[1], centerOfMass(pair[2]))
        e2 == viewspaceBounds(pair[2], centerOfMass(pair[1]))
        extent == Max2(Max2(e1[1], e1[2]), Max2(e2[1], e2[2]))
    IN  extent * separationCoeff[2]
            < separationCoeff[1] * Abs(centerOfMass(pair[1]) - centerOfMass(pair[2]))

\* C9: at every point an admissible pair has two distinct non-empty clusters,
\* not both singletons, that pass the separation test; an inadmissible pair
\* has two non-empty clusters and is two singletons, or fails the separation
\* test with a side of at most one element or at most 8 elements together.
C9_RulePriority ==
    /\ \A k \in DOMAIN admissiblePairs :
          LET A == admissiblePairs[k][1]
              B == admissiblePairs[k][2]
          IN  /\ A # B
              /\ NumElements(A) >= 1 /\ NumElements(B) >= 1
              /\ ~(NumElements(A) = 1 /\ NumElements(B) = 1)
              /\ Separated(<<A, B>>)
    /\ \A k \in DOMAIN inadmissiblePairs :
          LET A == inadmissiblePairs[k][1]
              B == inadmissiblePairs[k][2]
          IN  /\ NumElements(A) >= 1 /\ NumElements(B) >= 1
              /\ \/ NumElements(A) = 1 /\ NumElements(B) = 1
                 \/ /\ ~Separated(<<A, B>>)
                    /\ \/ NumElements(A) <= 1
                       \/ NumElements(B) <= 1
                       \/ NumElements(A) + NumElements(B) <= 8

\* Two separated singletons ended in the inadmissible collection, next to an
\* admissible pair and an inadmissible pair kept for its size.
C9_Witness ==
    /\ admissiblePairs # <<>>
    /\ \E k \in DOMAIN inadmissiblePairs :
          /\ NumElements(inadmissiblePairs[k][1]) = 1
          /\ NumElements(inadmissiblePairs[k][2]) = 1
          /\ Separated(inadmissiblePairs[k])
    /\ \E k \in DOMAIN inadmissiblePairs :
          /\ NumElements(inadmissiblePairs[k][1]) > 1
          /\ ~Separated(inadmissiblePairs[k])

\* ---------------------------------------------------------------- C10
\* The elements of the cluster1 of some pair.
Cluster1Elems(pairs) == UNION {IndexSet(pairs[k][1]) : k \in DOMAIN pairs}

\* What MultiplyAdmissibleFast computes from the input and the tree alone.
FastValue(v) ==
    LET h  == AfPasses(AllZero, [i \in Elems |-> 1]).result
        c0 == AfPasses(AllZero, Column(v, 0)).result
        c1 == AfPasses(AllZero, Column(v, 1)).result
        c2 == AfPasses(AllZero, Column(v, 2)).result
    IN  [i \in DOMAIN h \cap DOMAIN c0 \cap DOMAIN c1 \cap DOMAIN c2 |->
            <<2 * (h[i] * v[i][1] - c0[i]), 2 * (h[i] * v[i][2] - c1[i]),
              2 * (h[i] * v[i][3] - c2[i])>>]

\* C10: MultiplyInadmissible and MultiplyAdmissible add their contribution to
\* the buffer and leave the rows outside every cluster1 alone;
\* MultiplyAdmissibleFast leaves a buffer that does not depend on what the
\* buffer held before.
C10_AddVersusOverwrite ==
    /\ (LastOp = "MultiplyInadmissible") =>
          /\ b_hat = MatAdd(prev_b, MultiplyInadmissibleLoop(inadmissiblePairs, v_hat, ZeroMatrix))
          /\ \A i \in Elems \ Cluster1Elems(inadmissiblePairs) : b_hat[i] = prev_b[i]
    /\ (LastOp = "MultiplyAdmissible") =>
          /\ b_hat = MatAdd(prev_b, MultiplyAdmissibleLoop(admissiblePairs, v_hat, ZeroMatrix))
          /\ \A i \in Elems \ Cluster1Elems(admissiblePairs) : b_hat[i] = prev_b[i]
    /\ (LastOp = "MultiplyAdmissibleFast") => b_hat = FastValue(v_hat)

\* MultiplyAdmissibleFast ran on the buffer MultiplyInadmissible had written:
\* the near-field rows are gone.
C10_Witness ==
    /\ ops = <<"MultiplyInadmissible", "MultiplyAdmissibleFast">>
    /\ prev_b # ZeroMatrix
    /\ b_hat = FastValue(v_hat)
    /\ b_hat # MatAdd(prev_b, FastValue(v_hat))
    /\ \E i \in Elems \ Cluster1Elems(admissiblePairs) : prev_b[i] # <<0, 0, 0>>

====
